---------------------------- MODULE Spec2Model ----------------------------
(* Model of the dataset recommendation system:                             *)
(*   - RecommendationClient (src/src/recommendation_client.py): a Redis    *)
(*     set store behind ingest_json / get_recommendations / list_pdfs /    *)
(*     list_usecases;                                                      *)
(*   - the FastAPI service (src/src/services/dataset_recs_api.py):         *)
(*     GET /recommend and GET /health with validation, the error       *)
(*     envelope and store calls that may raise;                            *)
(*   - the MathE pipeline (src/src/mathe_recs_pipeline.py): embeddings     *)
(*     dict, index mapping, cosine similarity and top-n neighbor lists;    *)
(*   - the metrics (src/src/recs_metrics/item_item.py): recall_at_n and    *)
(*     tndcg_at_n.                                                         *)
(*                                                                         *)
(* Strings are sequences of one-character strings, so that the key         *)
(* pattern "recommendations:<usecase>:<pdf>" is really built and really    *)
(* split; the literal "recommendations" (which holds no separator) is one  *)
(* element.  The empty string "" is the empty sequence <<>>.               *)
EXTENDS Integers, Sequences, FiniteSets, TLC

VARIABLES
    store,      \* Redis: key string -> set of member strings (only existing keys)
    ing,        \* the running / last ingest_json call: pc, usecase, data, i, count, fresh
    ningest,    \* number of ingest_json calls started
    resp,       \* the HTTP response the service has just produced, with its request
    corpus,     \* pipeline: data, the list of OCR records
    n,          \* pipeline: the top-n cutoff
    ppc,        \* pipeline: position in __main__
    idx,        \* pipeline: the loop index (records embedded, then rows ranked)
    embeddings, \* pipeline: the embeddings dict, in insertion order
    embeddings_array,     \* pipeline: the saved matrix, one row per material id
    index_mapping,        \* pipeline: row index -> material id
    topn_recommendations, \* pipeline: material id -> neighbor list
    predictions,  \* metrics: item id -> predicted ids, a dict in insertion order
    ground_truth, \* metrics: item id -> set of true related ids
    at_n,         \* metrics: the parameter n of recall_at_n / tndcg_at_n
    mpc,          \* metrics: which function has been called
    metric,       \* metrics: what the call returned or raised
    snap,         \* reader: the store as it was when the running ingest_json started
    seen          \* reader: what a concurrent get_recommendations call returned

vars == <<store, ing, ningest, resp, corpus, n, ppc, idx, embeddings,
          embeddings_array, index_mapping, topn_recommendations,
          predictions, ground_truth, at_n, mpc, metric, snap, seen>>

storeVars == <<store, ing, ningest, resp>>
pipeVars == <<corpus, n, ppc, idx, embeddings, embeddings_array, index_mapping,
              topn_recommendations>>
metricVars == <<predictions, ground_truth, at_n, mpc, metric>>
readVars == <<snap, seen>>

-----------------------------------------------------------------------------
(* Bounds of the model.                                                    *)

MaxIngests == 2     \* ingest_json calls in one behaviour
MaxEntries == 2     \* entries of an ingested JSON object
MaxListLen == 1     \* length of a recommendation list in the JSON
MaxCorpus == 3      \* records of the corpus the pipeline embeds
MaxPredLen == 2     \* length of a predicted list given to the metrics

-----------------------------------------------------------------------------
(* Strings.                                                                *)

\* Python None, for an optional string argument
None == [given |-> FALSE, str |-> <<>>]

\* a given string argument
Some(s) == [given |-> TRUE, str |-> s]

COLON == ":"

\* Python list(set(...)) of a sequence: its elements
SetOf(s) == {s[i] : i \in DOMAIN s}

\* all sequences over S of length at most k
RECURSIVE SeqsUpTo(_, _)
SeqsUpTo(S, k) ==
    IF k = 0 THEN {<<>>}
    ELSE LET shorter == SeqsUpTo(S, k - 1)
         IN  shorter \cup {Append(s, x) : s \in {t \in shorter : Len(t) = k - 1}, x \in S}

\* positions of sep in s
SepPositions(s, sep) == {i \in DOMAIN s : s[i] = sep}

Min(S) == CHOOSE x \in S : \A y \in S : x <= y

\* str.split(sep, maxsplit): maxsplit = -1 means no limit
RECURSIVE split(_, _, _)
split(s, sep, maxsplit) ==
    IF maxsplit = 0 \/ SepPositions(s, sep) = {}
    THEN <<s>>
    ELSE LET p == Min(SepPositions(s, sep))
         IN  <<SubSeq(s, 1, p - 1)>> \o split(SubSeq(s, p + 1, Len(s)), sep, maxsplit - 1)

\* s.startswith(prefix): how a glob pattern "<prefix>*" matches a key
StartsWith(s, prefix) ==
    /\ Len(prefix) <= Len(s)
    /\ SubSeq(s, 1, Len(prefix)) = prefix

-----------------------------------------------------------------------------
(* RecommendationClient over Redis.                                        *)

\* the reserved member that keeps an empty set alive in Redis
EMPTY_MARKER == <<>>

\* f"recommendations:{usecase}:{pdf}"
_key(usecase, pdf) == <<"recommendations", COLON>> \o usecase \o <<COLON>> \o pdf

\* Redis SMEMBERS: a missing key is the empty set
smembers(key) == IF key \in DOMAIN store THEN store[key] ELSE {}

\* Redis KEYS with a pattern "<prefix>*"
keys(prefix) == {k \in DOMAIN store : StartsWith(k, prefix)}

\* a SADD that has stored only one of the members
sadd_OneMember(st, key, members) ==
    LET one == {CHOOSE m \in members : TRUE}
    IN  IF key \in DOMAIN st
        THEN [st EXCEPT ![key] = @ \cup one]
        ELSE [k \in DOMAIN st \cup {key} |-> IF k = key THEN one ELSE st[k]]

\* Redis SADD key members: adds to the set at key, creating it
sadd(st, key, members) ==
    IF key \in DOMAIN st
    THEN [st EXCEPT ![key] = @ \cup members]
    ELSE [k \in DOMAIN st \cup {key} |-> IF k = key THEN members ELSE st[k]]

\* the write ingest_json makes for one entry (pdf, recs)
IngestWrite(st, usecase, pdf, recs) ==
    IF recs # <<>>
    THEN sadd(st, _key(usecase, pdf), SetOf(recs))
    ELSE sadd(st, _key(usecase, pdf), {EMPTY_MARKER})

\* get_recommendations without the placeholder filter
get_recommendations_NoFilter(usecase, pdf) == smembers(_key(usecase, pdf))

get_recommendations(usecase, pdf) ==
    {r \in smembers(_key(usecase, pdf)) : r # EMPTY_MARKER}

\* a lookup that signals NotFound for a key that is not in the store
GetOutcome_NotFound(usecase, pdf) ==
    IF _key(usecase, pdf) \in DOMAIN store
    THEN [raises |-> "none", value |-> get_recommendations(usecase, pdf)]
    ELSE [raises |-> "NotFound", value |-> {}]

\* the outcome of a call of get_recommendations on a reachable store: the
\* method has no raise statement and SMEMBERS of a missing key is not an error
GetOutcome(usecase, pdf) ==
    [raises |-> "none", value |-> get_recommendations(usecase, pdf)]

list_pdfs(usecase) ==
    LET pattern == <<"recommendations", COLON>> \o usecase \o <<COLON>>
    IN  {LET parts == split(key, COLON, 2) IN parts[Len(parts)] : key \in keys(pattern)}

\* the scan over keys(f"recommendations:{usecase}:*"): the source_pdf of every
\* key whose SMEMBERS holds pdf
find_entries_recommending(usecase, pdf) ==
    LET pattern == <<"recommendations", COLON>> \o usecase \o <<COLON>>
    IN  {LET parts == split(key, COLON, 2) IN parts[Len(parts)] :
             key \in {k \in keys(pattern) : pdf \in smembers(k)}}

list_usecases ==
    {split(key, COLON, -1)[2] : key \in keys(<<"recommendations", COLON>>)}


-----------------------------------------------------------------------------
(* Inputs of ingest_json.                                                  *)

\* item ids (pdf names)
Items == {<<"a">>, <<"b">>}

\* a JSON list of strings
JsonList(l) == [type |-> "list", items |-> l]

\* a JSON value that is not a list
NotAList == [type |-> "str", items |-> <<>>]

\* a JSON top-level object, its entries <<pdf, value>> in file order
JsonDict(d) == [type |-> "dict", entries |-> d]

\* a JSON top-level value that is not an object
NotADict == [type |-> "list", entries |-> <<>>]

\* the lists a JSON entry may hold (order and duplicates included)
RecLists == SeqsUpTo(Items, MaxListLen)

\* the values a JSON entry may hold
JsonValues == {JsonList(l) : l \in RecLists} \cup {NotAList}

\* JSON objects as loaded by json.load: entries <<pdf, value>> in file order,
\* with distinct keys
JsonObjects ==
    {d \in SeqsUpTo(Items \X JsonValues, MaxEntries) :
        \A i, j \in DOMAIN d : i # j => d[i][1] # d[j][1]}

JsonFiles == {JsonDict(d) : d \in JsonObjects} \cup {NotADict}

\* the json_path arguments: "d/m.j"
JsonPaths == {<<"d", "/", "m", ".", "j">>}

\* the usecase arguments; None takes the name from the path
UsecaseArgs == {None, Some(<<"m", COLON, "u">>)}

\* os.path.basename
basename(path) ==
    LET parts == split(path, "/", -1) IN parts[Len(parts)]

\* usecase = os.path.basename(json_path).split(".")[0] when none is given
ResolveUsecase(json_path, usecase) ==
    IF usecase = None THEN split(basename(json_path), ".", -1)[1] ELSE usecase.str

\* the namespaces ingest_json is called with
IngestUsecases == {ResolveUsecase(p, u) : p \in JsonPaths, u \in UsecaseArgs}

-----------------------------------------------------------------------------
(* ingest_json, one Redis command at a time.                               *)

IdleIng == [pc |-> "idle", usecase |-> <<>>, data |-> <<>>, i |-> 1, count |-> 0,
            fresh |-> FALSE]

\* an ingest_json that checks every value before the loop and writes nothing
\* when one of them is not a list
IngestStart_ValidateAll(json_path, usecase, data) ==
    /\ ing.pc # "loop"
    /\ ningest < MaxIngests
    /\ ningest' = ningest + 1
    /\ LET uc == ResolveUsecase(json_path, usecase)
           invalid == \/ data.type # "dict"
                      \/ \E e \in DOMAIN data.entries : data.entries[e][2].type # "list"
       IN  ing' = [pc |-> IF invalid THEN "raised" ELSE "loop",
                   usecase |-> uc,
                   data |-> data.entries,
                   i |-> 1, count |-> 0,
                   fresh |-> (list_pdfs(uc) = {})]
    /\ UNCHANGED <<store, resp>>

\* lines 30-37: resolve the usecase, load the file, reject a non-object
IngestStart(json_path, usecase, data) ==
    /\ ing.pc # "loop"
    /\ ningest < MaxIngests
    /\ ningest' = ningest + 1
    /\ LET uc == ResolveUsecase(json_path, usecase)
       IN  ing' = [pc |-> IF data.type # "dict" THEN "raised" ELSE "loop",
                   usecase |-> uc,
                   data |-> data.entries,
                   i |-> 1, count |-> 0,
                   fresh |-> (list_pdfs(uc) = {})]
    /\ UNCHANGED <<store, resp>>

\* lines 40-52: one iteration of the loop over data.items()
IngestEntry ==
    /\ ing.pc = "loop"
    /\ ing.i <= Len(ing.data)
    /\ LET pdf == ing.data[ing.i][1]
           recs == ing.data[ing.i][2]
       IN  IF recs.type # "list"
           THEN /\ ing' = [ing EXCEPT !.pc = "raised"]
                /\ UNCHANGED store
           ELSE /\ store' = IngestWrite(store, ing.usecase, pdf, recs.items)
                /\ ing' = [ing EXCEPT !.i = @ + 1, !.count = @ + 1]
    /\ UNCHANGED <<ningest, resp>>

\* line 54: the loop is over, the call returns
IngestReturn ==
    /\ ing.pc = "loop"
    /\ ing.i > Len(ing.data)
    /\ ing' = [ing EXCEPT !.pc = "returned"]
    /\ UNCHANGED <<store, ningest, resp>>

-----------------------------------------------------------------------------
(* GET /recommend (services/dataset_recs_api.py).                          *)

\* n: int = Query(10, ...): the value n takes when the parameter is omitted
DEFAULT_N == 10

\* n: int = Query(..., le=20): the largest n that passes validation
MAX_N == 20

\* a raw query parameter n: omitted, not an integer, or an integer
NOmitted == [given |-> FALSE, isint |-> FALSE, val |-> 0]
NNotInt == [given |-> TRUE, isint |-> FALSE, val |-> 0]
NInt(v) == [given |-> TRUE, isint |-> TRUE, val |-> v]

\* the dataset, iid and n query parameters a request may carry
DatasetArgs == {None, Some(<<"m">>), Some(<<"m", COLON, "u">>), Some(<<"u">>)}
IidArgs == {None} \cup {Some(i) : i \in Items}
NArgs == {NOmitted, NNotInt} \cup {NInt(v) : v \in {-1, 0, 1, MAX_N, MAX_N + 1}}

\* what self.r.ping() does: returns True, returns a falsy value, or raises
\* redis.exceptions.ConnectionError or another exception (TimeoutError is a
\* RedisError that is not a ConnectionError)
PingOutcomes == {"True", "False", "ConnectionError", "TimeoutError"}

\* what a call of list_usecases or get_recommendations does: returns, or
\* raises (the server gone: ConnectionError; the command refused: ResponseError)
CallOutcomes == {"ok", "ConnectionError", "ResponseError"}

\* what list_usecases and get_recommendations do while one /recommend request
\* is served: get_recommendations is not reached once list_usecases has raised
RecommendOutcomes ==
    {o \in CallOutcomes \X CallOutcomes : o[1] = "ok" \/ o[2] = "ok"}

\* the body of a response that is not a 200 of /health
NoHealth == [status |-> "", database |-> "", available_datasets |-> 0]

\* a request as the service receives it: the path, the query parameters and
\* what the store does with each call made while serving it
Request(path, dataset, iid, nreq, ping, lu, gr) ==
    [path |-> path, dataset |-> dataset, iid |-> iid, n |-> nreq,
     ping |-> ping, lu |-> lu, gr |-> gr]

\* no response in flight
NoResp == [status |-> 0, dataset |-> <<>>, iid |-> <<>>, recommendations |-> <<>>,
           errors |-> <<>>, n |-> 0, calls |-> <<>>, health |-> NoHealth,
           req |-> Request("", None, None, NOmitted, "True", "ok", "ok")]

\* the enum shown in the OpenAPI schema of the dataset parameter
SUPPORTED_DATASETS == {<<"m">>}

\* validation without the le=20 constraint on n
ValidationErrors_NoLe(dataset, iid, nreq) ==
    {f \in {"dataset"} : ~dataset.given}
    \cup {f \in {"iid"} : ~iid.given}
    \cup {f \in {"n"} : nreq.given /\ ~nreq.isint}

\* the parameters FastAPI rejects: a required one missing, n not an int or n > 20
ValidationErrors(dataset, iid, nreq) ==
    {f \in {"dataset"} : ~dataset.given}
    \cup {f \in {"iid"} : ~iid.given}
    \cup {f \in {"n"} : nreq.given /\ (~nreq.isint \/ nreq.val > MAX_N)}

\* the value bound to the handler's parameter n
BoundN(nreq) == IF nreq.given THEN nreq.val ELSE DEFAULT_N

\* FastAPI's default body {"detail": ...}, without the errors list
HttpErrorResponse_Plain(status_code, detail, nn, calls) ==
    [status |-> status_code, dataset |-> <<>>, iid |-> <<>>, recommendations |-> <<>>,
     errors |-> <<>>, n |-> nn, calls |-> calls]

\* JSONResponse of http_exception_handler
HttpErrorResponse(status_code, detail, nn, calls) ==
    [status |-> status_code, dataset |-> <<>>, iid |-> <<>>, recommendations |-> <<>>,
     errors |-> <<[code |-> status_code, detail |-> detail]>>, n |-> nn, calls |-> calls]

\* JSONResponse of validation_exception_handler; detail is exc.errors(), one per field
ValidationErrorResponse(fields) ==
    [status |-> 422, dataset |-> <<>>, iid |-> <<>>, recommendations |-> <<>>,
     errors |-> <<[code |-> 422,
                   detail |-> [msg |-> "validation", dataset |-> <<>>, iid |-> <<>>,
                               loc |-> fields]]>>,
     n |-> 0, calls |-> <<>>]

\* f"Dataset '{dataset}' not found"
DatasetNotFound(dataset) ==
    [msg |-> "Dataset not found", dataset |-> dataset, iid |-> <<>>, loc |-> {}]

\* f"Item ID '{iid}' not found in dataset '{dataset}'"
ItemNotFound(dataset, iid) ==
    [msg |-> "Item ID not found in dataset", dataset |-> dataset, iid |-> iid, loc |-> {}]

\* list(recs_set): the members in some order
ListsOf(S) ==
    {l \in SeqsUpTo(S, Cardinality(S)) : Len(l) = Cardinality(S) /\ SetOf(l) = S}

\* Python l[:k]: the first k elements, or all but the last -k when k < 0
SliceTo(l, k) ==
    IF k >= 0
    THEN SubSeq(l, 1, IF k < Len(l) THEN k ELSE Len(l))
    ELSE SubSeq(l, 1, IF Len(l) + k > 0 THEN Len(l) + k ELSE 0)

\* the handler body without the check of the dataset against list_usecases
HandlerResponses_NoDatasetCheck(dataset, iid, nn) ==
    LET recs_set == get_recommendations(dataset, iid)
        calls == <<"list_usecases", "get_recommendations">>
    IN  IF recs_set = {}
        THEN {[status |-> 404, dataset |-> <<>>, iid |-> <<>>, recommendations |-> <<>>,
               errors |-> <<[code |-> 404,
                             detail |-> [msg |-> "Item ID not found in dataset",
                                         dataset |-> dataset, iid |-> iid, loc |-> {}]]>>,
               n |-> nn, calls |-> calls]}
        ELSE {[status |-> 200, dataset |-> dataset, iid |-> iid,
               recommendations |-> SliceTo(l, nn), errors |-> <<>>,
               n |-> nn, calls |-> calls] : l \in ListsOf(recs_set)}

\* the handler body answering 200 with an empty list for an empty set
HandlerResponses_EmptyOk(dataset, iid, nn) ==
    IF dataset \notin list_usecases
    THEN {[status |-> 404, dataset |-> <<>>, iid |-> <<>>, recommendations |-> <<>>,
           errors |-> <<[code |-> 404,
                         detail |-> [msg |-> "Dataset not found", dataset |-> dataset,
                                     iid |-> <<>>, loc |-> {}]]>>,
           n |-> nn, calls |-> <<"list_usecases">>]}
    ELSE {[status |-> 200, dataset |-> dataset, iid |-> iid,
           recommendations |-> SliceTo(l, nn), errors |-> <<>>,
           n |-> nn, calls |-> <<"list_usecases", "get_recommendations">>] :
             l \in ListsOf(get_recommendations(dataset, iid))}

\* the responses of the handler body (lines 88-105) for validated parameters
HandlerResponses(dataset, iid, nn) ==
    IF dataset \notin list_usecases
    THEN {HttpErrorResponse(404, DatasetNotFound(dataset), nn, <<"list_usecases">>)}
    ELSE LET recs_set == get_recommendations(dataset, iid)
             calls == <<"list_usecases", "get_recommendations">>
         IN  IF recs_set = {}
             THEN {HttpErrorResponse(404, ItemNotFound(dataset, iid), nn, calls)}
             ELSE {[status |-> 200, dataset |-> dataset, iid |-> iid,
                    recommendations |-> SliceTo(l, nn), errors |-> <<>>,
                    n |-> nn, calls |-> calls] : l \in ListsOf(recs_set)}

\* a detail that carries the text of the exception
ExceptionDetail_Leak(exc) == [msg |-> exc, dataset |-> <<>>, iid |-> <<>>, loc |-> {}]

\* except Exception as e: raise HTTPException(status_code=500,
\* detail="Internal server error"): the detail does not depend on e
ExceptionDetail(exc) ==
    [msg |-> "Internal server error", dataset |-> <<>>, iid |-> <<>>, loc |-> {}]

\* the handler with its try/except (lines 88-110): an exception of a store
\* call becomes HTTPException(500); the HTTPException(404) of the body is
\* re-raised as it is
EndpointResponses(dataset, iid, nn, lu, gr) ==
    IF lu # "ok"
    THEN {HttpErrorResponse(500, ExceptionDetail(lu), nn, <<"list_usecases">>)}
    ELSE IF dataset \in list_usecases /\ gr # "ok"
         THEN {HttpErrorResponse(500, ExceptionDetail(gr), nn,
                                 <<"list_usecases", "get_recommendations">>)}
         ELSE HandlerResponses(dataset, iid, nn)

\* the responses to GET /recommend?dataset=..&iid=..&n=..: validation, then the handler
Responses(dataset, iid, nreq, lu, gr) ==
    LET fields == ValidationErrors(dataset, iid, nreq)
    IN  IF fields # {}
        THEN {ValidationErrorResponse(fields)}
        ELSE EndpointResponses(dataset.str, iid.str, BoundN(nreq), lu, gr)

\* the service answers one request; resp records the response with the request
Recommend(dataset, iid, nreq, lu, gr) ==
    /\ resp = NoResp
    /\ \E r \in Responses(dataset, iid, nreq, lu, gr) :
           resp' = [status |-> r.status, dataset |-> r.dataset, iid |-> r.iid,
                    recommendations |-> r.recommendations, errors |-> r.errors,
                    n |-> r.n, calls |-> r.calls, health |-> NoHealth,
                    req |-> Request("/recommend", dataset, iid, nreq, "True", lu, gr)]
    /\ UNCHANGED <<store, ing, ningest>>

\* check_connection: True when ping returns True, False when it returns a
\* falsy value or raises ConnectionError; any other exception propagates
check_connection(ping) ==
    [raises |-> IF ping \in {"True", "False", "ConnectionError"} THEN "none" ELSE ping,
     value |-> (ping = "True")]

\* "Service Unavailable: Database connection failed"
ServiceUnavailable ==
    [msg |-> "Service Unavailable: Database connection failed",
     dataset |-> <<>>, iid |-> <<>>, loc |-> {}]

\* len(usecases) counting every key instead of the distinct usecases
available_datasets_PerKey == Cardinality(DOMAIN store)

\* len(usecases) for usecases = recs_client.list_usecases()
available_datasets == Cardinality(list_usecases)

\* the JSON body health_check returns
HealthBody ==
    [status |-> "ok", database |-> "connected", available_datasets |-> available_datasets]

\* health_check (lines 118-143): the response to GET /health and its body
HealthResponse(ping, lu) ==
    LET is_redis_up == check_connection(ping)
    IN  IF is_redis_up.raises # "none"
        THEN [r |-> HttpErrorResponse(500, ExceptionDetail(is_redis_up.raises), 0,
                                      <<"check_connection">>),
              health |-> NoHealth]
        ELSE IF ~is_redis_up.value
        THEN [r |-> HttpErrorResponse(503, ServiceUnavailable, 0, <<"check_connection">>),
              health |-> NoHealth]
        ELSE IF lu # "ok"
        THEN [r |-> HttpErrorResponse(500, ExceptionDetail(lu), 0,
                                      <<"check_connection", "list_usecases">>),
              health |-> NoHealth]
        ELSE [r |-> [status |-> 200, dataset |-> <<>>, iid |-> <<>>,
                     recommendations |-> <<>>, errors |-> <<>>, n |-> 0,
                     calls |-> <<"check_connection", "list_usecases">>],
              health |-> HealthBody]

\* the service answers one GET /health
Health(ping, lu) ==
    /\ resp = NoResp
    /\ LET h == HealthResponse(ping, lu)
       IN  resp' = [status |-> h.r.status, dataset |-> h.r.dataset, iid |-> h.r.iid,
                    recommendations |-> h.r.recommendations, errors |-> h.r.errors,
                    n |-> h.r.n, calls |-> h.r.calls, health |-> h.health,
                    req |-> Request("/health", None, None, NOmitted, ping, lu, "ok")]
    /\ UNCHANGED <<store, ing, ningest>>

\* the response leaves the service
Deliver ==
    /\ resp # NoResp
    /\ resp' = NoResp
    /\ UNCHANGED <<store, ing, ningest>>

\* a whole ingest_json call on a file with the one entry pdf: recs
Refresh(usecase, pdf, recs) ==
    /\ resp = NoResp
    /\ ningest < MaxIngests
    /\ ningest' = ningest + 1
    /\ store' = IngestWrite(store, usecase, pdf, recs)
    /\ UNCHANGED <<ing, resp>>

-----------------------------------------------------------------------------
(* The MathE pipeline (mathe_recs_pipeline.py, __main__).                  *)
(* A text is the sequence of its paragraphs, each given by the vector the  *)
(* encoder returns for it; a text of more than one paragraph is over the   *)
(* token limit.  Vectors have integer coordinates; the mean of k chunk     *)
(* vectors is kept exactly, as their sum with the count k.  Rows and       *)
(* indices are 0-based as in the code; row r is element r + 1 of a         *)
(* sequence.                                                               *)

\* the texts of the corpus: one paragraph encoded as (1,0), one as (0,1), and
\* a two-paragraph text whose chunks are encoded as (1,0) and (0,1)
Texts == {<<<<1, 0>>>>, <<<<0, 1>>>>, <<<<1, 0>>, <<0, 1>>>>}

\* the ids of the OCR records: relative paths of the source PDFs
RecordIds == {<<"p", "/", "a">>, <<"q", "/", "a">>, <<"p", "/", "b">>, <<"p", "/", "c">>}

Records == [id : RecordIds, contents : Texts]

\* the cutoffs the top-n step is run with; the script sets n = 20
NValues == {1, 2, 20}

\* Path(d["id"]).name
PathName(id) == LET parts == split(id, "/", -1) IN parts[Len(parts)]

\* compute_token_stats: the ids of the records whose text exceeds the token limit
over_limit_ids == {corpus[k].id : k \in {j \in DOMAIN corpus : Len(corpus[j].contents) > 1}}

RECURSIVE VecSum(_)
VecSum(vs) ==
    IF Len(vs) = 1 THEN vs[1]
    ELSE LET rest == VecSum(Tail(vs))
         IN  [c \in DOMAIN vs[1] |-> vs[1][c] + rest[c]]

\* model.encode(text) of a text within the limit
Encode(text) == [sum |-> text[1], cnt |-> 1]

\* np.mean([model.encode(chunk) for chunk in chunks], axis=0)
MeanOfChunks(chunks) == [sum |-> VecSum(chunks), cnt |-> Len(chunks)]

\* a list of pairs in place of the dict: a repeated key is appended again
DictSet_AlwaysAppend(d, k, v) == Append(d, <<k, v>>)

\* d[k] = v on a Python dict kept as a sequence of <<key, value>> in insertion
\* order: an existing key keeps its place
DictSet(d, k, v) ==
    IF \E e \in DOMAIN d : d[e][1] = k
    THEN [e \in DOMAIN d |-> IF d[e][1] = k THEN <<k, v>> ELSE d[e]]
    ELSE Append(d, <<k, v>>)

\* str(i) as json.dump writes an int key, and int(k) as the script reads it back
Digits == <<"0", "1", "2", "3", "4", "5", "6", "7", "8", "9">>

RECURSIVE IntToStr(_)
IntToStr(i) ==
    IF i < 10 THEN <<Digits[i + 1]>>
    ELSE IntToStr(i \div 10) \o <<Digits[(i % 10) + 1]>>

DigitValue(c) == CHOOSE v \in 0..9 : Digits[v + 1] = c

RECURSIVE StrToInt(_)
StrToInt(str) ==
    IF Len(str) = 1 THEN DigitValue(str[1])
    ELSE 10 * StrToInt(SubSeq(str, 1, Len(str) - 1)) + DigitValue(str[Len(str)])

\* lines 87-100: one iteration of the embedding loop
EmbedRecord ==
    /\ ppc = "embed"
    /\ idx < Len(corpus)
    /\ LET d == corpus[idx + 1]
           material_id == PathName(d.id)
           emb == IF d.id \notin over_limit_ids
                  THEN Encode(d.contents)
                  ELSE MeanOfChunks(d.contents)
       IN  embeddings' = DictSet(embeddings, material_id, emb)
    /\ idx' = idx + 1
    /\ UNCHANGED <<corpus, n, ppc, embeddings_array, index_mapping, topn_recommendations>>

\* lines 87-100 when model.encode (or the splitter) raises for record idx:
\* the loop has no try, the exception ends the script
EmbedRaises ==
    /\ ppc = "embed"
    /\ idx < Len(corpus)
    /\ ppc' = "raised"
    /\ UNCHANGED <<corpus, n, idx, embeddings, embeddings_array, index_mapping,
                   topn_recommendations>>

\* lines 109-116: stack the embeddings and write the index mapping (np.stack
\* raises on an empty list); lines 125-131 load both back
SaveArtifacts ==
    /\ ppc = "embed"
    /\ idx = Len(corpus)
    /\ IF embeddings = <<>>
       THEN /\ ppc' = "aborted"
            /\ UNCHANGED <<embeddings_array, index_mapping>>
       ELSE LET material_ids == [e \in DOMAIN embeddings |-> embeddings[e][1]]
            IN  /\ embeddings_array' = [e \in DOMAIN embeddings |-> embeddings[e][2]]
                /\ index_mapping' =
                       [k \in {IntToStr(i) : i \in 0..(Len(material_ids) - 1)}
                           |-> material_ids[StrToInt(k) + 1]]
                /\ ppc' = "topn"
    /\ idx' = 0
    /\ UNCHANGED <<corpus, n, embeddings, topn_recommendations>>

\* {int(k): v for k, v in loaded_index_mapping.items()}
idx_to_material_id ==
    [i \in {StrToInt(k) : k \in DOMAIN index_mapping} |-> index_mapping[IntToStr(i)]]

\* loaded_embeddings.shape[0]
num_materials == Len(embeddings_array)

Dot(u, v) == u[1] * v[1] + u[2] * v[2]

\* sign(x) * x * x * w: compares x / sqrt(w') across vectors by cross-multiplying
SignedSq(x, w) == IF x >= 0 THEN x * x * w ELSE 0 - (x * x * w)

\* sim_matrix[i][j] < sim_matrix[i][k], for the cosine similarities of the
\* normalized rows: dot(i,j)/|j| < dot(i,k)/|k|, the positive factors 1/|i|
\* and the chunk counts cancelling.  The comparison is exact: rounding of the
\* float32 products is not modelled, and no embedding is the zero vector.
SimLess(i, j, k) ==
    LET ei == embeddings_array[i + 1].sum
        ej == embeddings_array[j + 1].sum
        ek == embeddings_array[k + 1].sum
    IN  SignedSq(Dot(ei, ej), Dot(ek, ek)) < SignedSq(Dot(ei, ek), Dot(ej, ej))

\* the orders of a finite set
Orders(S) == ListsOf(S)

\* np.argsort(sim_matrix[i]): an order of the column indices by ascending
\* similarity; the order of equal similarities is not specified by the
\* default (unstable) sort
argsort(i) ==
    {p \in Orders(0..(num_materials - 1)) :
        \A a, b \in DOMAIN p : a < b => ~SimLess(i, p[b], p[a])}

\* the ranking left in ascending order
Reversed_Ascending(l) == l

\* l[::-1]
Reversed(l) == [k \in DOMAIN l |-> l[Len(l) + 1 - k]]

\* the unfiltered comprehension: every j of the ranking, i included
KeepAll(l, i) == l

\* [j for j in l if j != i]
RECURSIVE FilterNe(_, _)
FilterNe(l, i) ==
    IF l = <<>> THEN <<>>
    ELSE IF Head(l) # i THEN <<Head(l)>> \o FilterNe(Tail(l), i)
         ELSE FilterNe(Tail(l), i)

\* the comprehension without the [:n] cut
NeighborList_NoCut(order, i) ==
    LET js == FilterNe(order, i)
    IN  [k \in DOMAIN js |-> idx_to_material_id[js[k]]]

\* [idx_to_material_id[j] for j in order if j != i][:n]
NeighborList(order, i) ==
    LET js == FilterNe(order, i)
    IN  SliceTo([k \in DOMAIN js |-> idx_to_material_id[js[k]]], n)

\* lines 137-142: the entry of the dict comprehension for row i = idx
RankRow ==
    /\ ppc = "topn"
    /\ idx < num_materials
    /\ \E p \in argsort(idx) :
           topn_recommendations' =
               [k \in DOMAIN topn_recommendations \cup {idx_to_material_id[idx]} |->
                   IF k = idx_to_material_id[idx]
                   THEN NeighborList(Reversed(p), idx)
                   ELSE topn_recommendations[k]]
    /\ idx' = idx + 1
    /\ UNCHANGED <<corpus, n, ppc, embeddings, embeddings_array, index_mapping>>

\* lines 144-148: the recommendations are written
WriteRecommendations ==
    /\ ppc = "topn"
    /\ idx = num_materials
    /\ ppc' = "done"
    /\ UNCHANGED <<corpus, n, idx, embeddings, embeddings_array, index_mapping,
                   topn_recommendations>>

-----------------------------------------------------------------------------
(* The evaluation metrics (recs_metrics/item_item.py).                     *)
(* A number is kept exactly, as a fraction num/den with den > 0 in lowest  *)
(* terms; the discount 1 / log2(idx + 2) is kept to three decimals, as an  *)
(* integer number of thousandths.  A dict is the sequence of its           *)
(* <<key, value>> entries in insertion order (predictions) or a function   *)
(* (ground_truth, which is only looked up).                                *)

RECURSIVE Gcd(_, _)
Gcd(a, b) == IF b = 0 THEN a ELSE Gcd(b, a % b)

\* the number a / b, b > 0
Frac(a, b) == LET g == Gcd(a, b) IN [num |-> a \div g, den |-> b \div g]

FracAdd(p, q) == Frac(p.num * q.den + q.num * p.den, p.den * q.den)

FracLe(p, q) == p.num * q.den <= q.num * p.den

\* sum(values), starting from 0
RECURSIVE FracSum(_)
FracSum(values) ==
    IF values = <<>> THEN Frac(0, 1) ELSE FracAdd(Head(values), FracSum(Tail(values)))

\* a mean that is 0 when there is nothing to average
Mean_ZeroOnEmpty(values) ==
    IF Len(values) = 0
    THEN [raises |-> "none", value |-> Frac(0, 1), per_id |-> values]
    ELSE LET total == FracSum(values)
         IN  [raises |-> "none", value |-> Frac(total.num, total.den * Len(values)),
              per_id |-> values]

\* sum(values) / len(values): Python raises ZeroDivisionError for 0 / 0
Mean(values) ==
    IF Len(values) = 0
    THEN [raises |-> "ZeroDivisionError", value |-> Frac(0, 1), per_id |-> values]
    ELSE LET total == FracSum(values)
         IN  [raises |-> "none", value |-> Frac(total.num, total.den * Len(values)),
              per_id |-> values]

\* ground_truth.get(item_id, set())
dict_get(d, k, default) == IF k \in DOMAIN d THEN d[k] ELSE default

\* the recall of one item with every relevant position counted, repeats included
RecallOf_PerPosition(predicted, true_related, nn) ==
    LET top_n == SliceTo(predicted, nn)
    IN  Frac(Cardinality({e \in DOMAIN top_n : top_n[e] \in true_related}),
             Cardinality(true_related))

\* lines 34-36: the recall of one item with non-empty ground truth
RecallOf(predicted, true_related, nn) ==
    LET top_n == SliceTo(predicted, nn)
        hits == SetOf(top_n) \cap true_related
    IN  Frac(Cardinality(hits), Cardinality(true_related))

\* lines 29-36: the list recalls after the loop over predictions.items()
RECURSIVE Recalls(_, _, _)
Recalls(preds, truth, nn) ==
    IF preds = <<>> THEN <<>>
    ELSE LET item_id == Head(preds)[1]
             predicted == Head(preds)[2]
             true_related == dict_get(truth, item_id, {})
         IN  IF true_related = {}
             THEN Recalls(Tail(preds), truth, nn)
             ELSE <<RecallOf(predicted, true_related, nn)>> \o Recalls(Tail(preds), truth, nn)

recall_at_n(preds, truth, nn) == Mean(Recalls(preds, truth, nn))

\* 1000 / log2(idx + 2) for idx = 0, 1, ..., rounded
LOG2_DISCOUNT == <<1000, 631, 500, 431, 387, 356, 333, 315>>

\* dcg(relevance_scores), in thousandths
RECURSIVE dcg_from(_, _)
dcg_from(relevance_scores, pos) ==
    IF pos >= Len(relevance_scores) THEN 0
    ELSE relevance_scores[pos + 1] * LOG2_DISCOUNT[pos + 1]
             + dcg_from(relevance_scores, pos + 1)

dcg(relevance_scores) == dcg_from(relevance_scores, 0)

\* [1 if pid in true_related else 0 for pid in top_n]
RelevanceScores(top_n, true_related) ==
    [e \in DOMAIN top_n |-> IF top_n[e] \in true_related THEN 1 ELSE 0]

\* sorted(relevance_scores) without reverse=True: the zeros first
sorted_reverse_Ascending(scores) ==
    LET zeros == Cardinality({e \in DOMAIN scores : scores[e] = 0})
    IN  [e \in DOMAIN scores |-> IF e <= zeros THEN 0 ELSE 1]

\* sorted(relevance_scores, reverse=True) of scores that are 0 or 1: the ones first
sorted_reverse(scores) ==
    LET ones == Cardinality({e \in DOMAIN scores : scores[e] = 1})
    IN  [e \in DOMAIN scores |-> IF e <= ones THEN 1 ELSE 0]

\* lines 74-79: the NDCG of one item with non-empty ground truth
NdcgOf(predicted, true_related, nn) ==
    LET top_n == SliceTo(predicted, nn)
        relevance_scores == RelevanceScores(top_n, true_related)
        ideal_scores == sorted_reverse(relevance_scores)
        dcg_val == dcg(relevance_scores)
        idcg_val == dcg(ideal_scores)
    IN  IF idcg_val > 0 THEN Frac(dcg_val, idcg_val) ELSE Frac(0, 1)

\* lines 69-80: the list ndcgs after the loop over predictions.items()
RECURSIVE Ndcgs(_, _, _)
Ndcgs(preds, truth, nn) ==
    IF preds = <<>> THEN <<>>
    ELSE LET dataset_id == Head(preds)[1]
             predicted == Head(preds)[2]
             true_related == dict_get(truth, dataset_id, {})
         IN  IF true_related = {}
             THEN Ndcgs(Tail(preds), truth, nn)
             ELSE <<NdcgOf(predicted, true_related, nn)>> \o Ndcgs(Tail(preds), truth, nn)

tndcg_at_n(preds, truth, nn) == Mean(Ndcgs(preds, truth, nn))

\* the ids the metrics are called with: keys of the two dicts, and related ids
MetricKeys == {<<"x">>, <<"y">>}
PredictedIds == {<<"a">>, <<"b">>}
TruthSets == {{}, {<<"a">>}, {<<"a">>, <<"b">>}, {<<"a">>, <<"z">>}}

\* predictions: dicts of at most one entry per key, in every insertion order
PredictionDicts ==
    {d \in SeqsUpTo(MetricKeys \X SeqsUpTo(PredictedIds, MaxPredLen),
                    Cardinality(MetricKeys)) :
        \A i, j \in DOMAIN d : i # j => d[i][1] # d[j][1]}

\* ground_truth: dicts over some of the keys
GroundTruths == UNION {[D -> TruthSets] : D \in SUBSET MetricKeys}

\* the values of the parameter n
AtNValues == {-1, 0, 1, 2, 10}

\* recall_at_n({"x": ["a", "b", "c"]}, {"x": {"a", "z"}}, 3)
ScenarioPredictions == <<<<<<"x">>, <<<<"a">>, <<"b">>, <<"c">>>>>>>>
ScenarioTruth == [k \in {<<"x">>} |-> {<<"a">>, <<"z">>}]

NoMetric == [raises |-> "none", value |-> Frac(0, 1), per_id |-> <<>>]

MetricsIdle ==
    /\ predictions = <<>>
    /\ ground_truth = <<>>
    /\ at_n = 0
    /\ mpc = "off"
    /\ metric = NoMetric

\* a call of recall_at_n(predictions, ground_truth, n)
CallRecall ==
    /\ mpc = "ready"
    /\ metric' = recall_at_n(predictions, ground_truth, at_n)
    /\ mpc' = "recall_at_n"
    /\ UNCHANGED <<predictions, ground_truth, at_n>>

\* a call of tndcg_at_n(predictions, ground_truth, n)
CallTndcg ==
    /\ mpc = "ready"
    /\ metric' = tndcg_at_n(predictions, ground_truth, at_n)
    /\ mpc' = "tndcg_at_n"
    /\ UNCHANGED <<predictions, ground_truth, at_n>>

\* the four-item corpus A = [1, 0], B = [0.9, 0.1], C = [0, 1], D = [-1, 0], its
\* vectors scaled by 10 (the cosine similarity does not depend on the scale)
ScenarioCorpus ==
    <<[id |-> <<"s", "/", "A">>, contents |-> <<<<10, 0>>>>],
      [id |-> <<"s", "/", "B">>, contents |-> <<<<9, 1>>>>],
      [id |-> <<"s", "/", "C">>, contents |-> <<<<0, 10>>>>],
      [id |-> <<"s", "/", "D">>, contents |-> <<<<-10, 0>>>>]>>

\* no observation made by a reader
NoSeen == [taken |-> FALSE, usecase |-> <<>>, pdf |-> <<>>, value |-> {}]

ReaderIdle ==
    /\ snap = <<>>
    /\ seen = NoSeen

StoreIdle ==
    /\ store = <<>>
    /\ ing = IdleIng
    /\ ningest = 0
    /\ resp = NoResp

PipeInit ==
    /\ StoreIdle
    /\ ReaderIdle
    /\ MetricsIdle
    /\ corpus \in SeqsUpTo(Records, MaxCorpus) \cup {ScenarioCorpus}
    /\ n \in NValues
    /\ ppc = "embed"
    /\ idx = 0
    /\ embeddings = <<>>
    /\ embeddings_array = <<>>
    /\ index_mapping = <<>>
    /\ topn_recommendations = <<>>

PipeNext ==
    \/ EmbedRecord /\ UNCHANGED <<storeVars, metricVars, readVars>>
    \/ EmbedRaises /\ UNCHANGED <<storeVars, metricVars, readVars>>
    \/ SaveArtifacts /\ UNCHANGED <<storeVars, metricVars, readVars>>
    \/ RankRow /\ UNCHANGED <<storeVars, metricVars, readVars>>
    \/ WriteRecommendations /\ UNCHANGED <<storeVars, metricVars, readVars>>

PipeSpec == PipeInit /\ [][PipeNext]_vars

PipeIdle ==
    /\ corpus = <<>>
    /\ n = 0
    /\ ppc = "off"
    /\ idx = 0
    /\ embeddings = <<>>
    /\ embeddings_array = <<>>
    /\ index_mapping = <<>>
    /\ topn_recommendations = <<>>

Init ==
    /\ StoreIdle
    /\ ReaderIdle
    /\ PipeIdle
    /\ MetricsIdle

Next ==
    \/ \E json_path \in JsonPaths, usecase \in UsecaseArgs, data \in JsonFiles :
           IngestStart(json_path, usecase, data) /\ UNCHANGED <<pipeVars, metricVars, readVars>>
    \/ IngestEntry /\ UNCHANGED <<pipeVars, metricVars, readVars>>
    \/ IngestReturn /\ UNCHANGED <<pipeVars, metricVars, readVars>>

Spec == Init /\ [][Next]_vars

\* the usecases the service's store is refreshed for
Usecases == {<<"m">>, <<"m", COLON, "u">>}

ApiNext ==
    \/ \E usecase \in Usecases, pdf \in Items, recs \in RecLists :
           Refresh(usecase, pdf, recs) /\ UNCHANGED <<pipeVars, metricVars, readVars>>
    \/ \E dataset \in DatasetArgs, iid \in IidArgs, nreq \in NArgs,
          o \in RecommendOutcomes :
           Recommend(dataset, iid, nreq, o[1], o[2]) /\ UNCHANGED <<pipeVars, metricVars, readVars>>
    \/ \E ping \in PingOutcomes, lu \in CallOutcomes :
           Health(ping, lu) /\ UNCHANGED <<pipeVars, metricVars, readVars>>
    \/ Deliver /\ UNCHANGED <<pipeVars, metricVars, readVars>>

ApiSpec == Init /\ [][ApiNext]_vars

\* the lists and objects ingested while a reader is active: lists long enough
\* to hold two members
ReadLists == SeqsUpTo(Items, MaxListLen + 1)

ReadObjects ==
    {d \in SeqsUpTo(Items \X {JsonList(l) : l \in ReadLists}, MaxEntries) :
        \A i, j \in DOMAIN d : i # j => d[i][1] # d[j][1]}

\* the stores an earlier ingest_json into "m" may have left
EarlierStores ==
    {<<>>} \cup {IngestWrite(<<>>, <<"m">>, <<"a">>, l) : l \in {<<>>, <<<<"b">>>>}}

\* ingest_json starts while readers are active; the store at this moment is
\* remembered
ReadStart(data) ==
    /\ \E json_path \in JsonPaths : IngestStart(json_path, None, JsonDict(data))
    /\ snap' = store
    /\ seen' = NoSeen

\* a concurrent get_recommendations(usecase, pdf): one SMEMBERS on the store as
\* it is between two commands of the ingest
Read(usecase, pdf) ==
    /\ seen' = [taken |-> TRUE, usecase |-> usecase, pdf |-> pdf,
                value |-> GetOutcome(usecase, pdf).value]
    /\ UNCHANGED <<storeVars, snap>>

ReadInit ==
    /\ store \in EarlierStores
    /\ ing = IdleIng
    /\ ningest = MaxIngests - 1
    /\ resp = NoResp
    /\ snap = store
    /\ seen = NoSeen
    /\ PipeIdle
    /\ MetricsIdle

ReadNext ==
    \/ \E data \in ReadObjects : ReadStart(data) /\ UNCHANGED <<pipeVars, metricVars>>
    \/ IngestEntry /\ UNCHANGED <<pipeVars, metricVars, readVars>>
    \/ IngestReturn /\ UNCHANGED <<pipeVars, metricVars, readVars>>
    \/ \E usecase \in IngestUsecases, pdf \in Items :
           Read(usecase, pdf) /\ UNCHANGED <<pipeVars, metricVars>>

ReadSpec == ReadInit /\ [][ReadNext]_vars

MetricsInit ==
    /\ StoreIdle
    /\ ReaderIdle
    /\ PipeIdle
    /\ \/ /\ predictions \in PredictionDicts
          /\ ground_truth \in GroundTruths
          /\ at_n \in AtNValues
       \/ /\ predictions = ScenarioPredictions
          /\ ground_truth = ScenarioTruth
          /\ at_n = 3
    /\ mpc = "ready"
    /\ metric = NoMetric

MetricsNext ==
    \/ CallRecall /\ UNCHANGED <<storeVars, pipeVars, readVars>>
    \/ CallTndcg /\ UNCHANGED <<storeVars, pipeVars, readVars>>

MetricsSpec == MetricsInit /\ [][MetricsNext]_vars

-----------------------------------------------------------------------------
(* Properties of the store (checked under Spec).                           *)

\* the pdf names of the object the last ingest_json call loaded
IngestedKeys == {ing.data[e][1] : e \in DOMAIN ing.data}

\* C1: when an ingest_json call has returned, for every key k of the object it
\* ingested, get_recommendations(usecase, k) is exactly the set of ids of that
\* object's list for k, whatever earlier calls stored under k.
C1_IngestReplacesPerKey ==
    ing.pc = "returned" =>
        \A e \in DOMAIN ing.data :
            get_recommendations(ing.usecase, ing.data[e][1]) = SetOf(ing.data[e][2].items)

\* C2: when an ingest_json call that started on a usecase with no keys has
\* returned, get_recommendations gives the ingested set for every key of the
\* object (empty lists included), and list_pdfs gives exactly the object's keys.
C2_RoundTripFresh ==
    (ing.pc = "returned" /\ ing.fresh) =>
        /\ \A e \in DOMAIN ing.data :
               get_recommendations(ing.usecase, ing.data[e][1])
                   = SetOf(ing.data[e][2].items)
        /\ list_pdfs(ing.usecase) = IngestedKeys

-----------------------------------------------------------------------------
(* Properties of GET /recommend (checked under ApiSpec).  While a response *)
(* is in resp the store is the one the request read, so each property      *)
(* relates the request resp.req, the store and the response.               *)

\* a request to /recommend has been answered
Answered == resp.status # 0 /\ resp.req.path = "/recommend"

\* the request passes FastAPI's validation
PassesValidation(req) ==
    /\ req.dataset.given
    /\ req.iid.given
    /\ ~req.n.given \/ (req.n.isint /\ req.n.val <= 20)

C4_EmptyOrAbsentItem404 ==
    (/\ Answered
     /\ PassesValidation(resp.req)
     /\ resp.req.lu = "ok" /\ resp.req.gr = "ok"
     /\ resp.req.dataset.str \in list_usecases
     /\ smembers(_key(resp.req.dataset.str, resp.req.iid.str)) \subseteq {EMPTY_MARKER})
    => /\ resp.status = 404
       /\ resp.errors[1].code = 404

\* a 404 for an item of a known dataset whose key holds only the empty marker
C4_Witness ==
    /\ resp.status = 404
    /\ PassesValidation(resp.req)
    /\ resp.req.dataset.str \in list_usecases
    /\ smembers(_key(resp.req.dataset.str, resp.req.iid.str)) = {EMPTY_MARKER}

\* C5: a 200 response echoes the requested dataset and iid; its
\* recommendations are pairwise distinct members of the set stored under
\* (dataset, iid), and none is the empty marker.
C5_Response200Sound ==
    (Answered /\ resp.status = 200)
    => /\ resp.dataset = resp.req.dataset.str
       /\ resp.iid = resp.req.iid.str
       /\ \A p, q \in DOMAIN resp.recommendations :
              p # q => resp.recommendations[p] # resp.recommendations[q]
       /\ SetOf(resp.recommendations)
              \subseteq smembers(_key(resp.req.dataset.str, resp.req.iid.str))
       /\ EMPTY_MARKER \notin SetOf(resp.recommendations)

\* a 200 response with a recommendation for a key that also holds the marker
C5_Witness ==
    /\ resp.status = 200
    /\ resp.recommendations # <<>>
    /\ EMPTY_MARKER \in smembers(_key(resp.req.dataset.str, resp.req.iid.str))

\* C6: in a 200 response the number of recommendations never exceeds the
\* requested n, for every n that passes validation (negative n included), and
\* for 0 <= n <= 20 it is min(n, size of the stored recommendation set).
C6_CountAtMostN ==
    (Answered /\ resp.status = 200)
    => LET nn == IF resp.req.n.given THEN resp.req.n.val ELSE 10
           size == Cardinality(smembers(_key(resp.req.dataset.str, resp.req.iid.str))
                                   \ {EMPTY_MARKER})
       IN  /\ Len(resp.recommendations) <= nn
           /\ (0 <= nn /\ nn <= 20) =>
                  Len(resp.recommendations) = IF nn < size THEN nn ELSE size

\* C7: a request with n > 20, a non-integer n, or dataset or iid missing is
\* answered 422 with the body {errors: [{code: 422, detail: per-field errors}]},
\* without a call to the store; a request that omits n runs with n = 10.
C7_Validation422 ==
    Answered
    => LET req == resp.req
           bad == {f \in {"dataset"} : ~req.dataset.given}
                  \cup {f \in {"iid"} : ~req.iid.given}
                  \cup {f \in {"n"} : req.n.given /\ (~req.n.isint \/ req.n.val > 20)}
       IN  /\ bad # {} =>
                  /\ resp.status = 422
                  /\ Len(resp.errors) = 1
                  /\ resp.errors[1].code = 422
                  /\ resp.errors[1].detail.loc = bad
                  /\ resp.calls = <<>>
           /\ (bad = {} /\ ~req.n.given) =>
                  /\ resp.status # 422
                  /\ resp.n = 10

\* a 422 for n = 21 alone, on a store that holds the requested item
C7_Witness ==
    /\ resp.status = 422
    /\ resp.req.n = NInt(21)
    /\ resp.errors[1].detail.loc = {"n"}
    /\ resp.calls = <<>>
    /\ get_recommendations(resp.req.dataset.str, resp.req.iid.str) # {}

-----------------------------------------------------------------------------
(* Properties of the pipeline's top-n map (checked under PipeSpec).        *)

\* the material ids that were embedded
EmbeddedIds == {embeddings[e][1] : e \in DOMAIN embeddings}

\* the ids the index mapping maps to
MappedIds == {index_mapping[k] : k \in DOMAIN index_mapping}

\* rows i and j hold embeddings of the same direction (similarity 1)
SameDirection(i, j) ==
    LET ei == embeddings_array[i + 1].sum
        ej == embeddings_array[j + 1].sum
    IN  ei[1] * ej[2] = ei[2] * ej[1] /\ Dot(ei, ej) > 0

\* C8: no item id occurs in its own neighbor list, also when several items
\* have identical embeddings.
C8_NoSelfRecommendation ==
    \A k \in DOMAIN topn_recommendations :
        \A e \in DOMAIN topn_recommendations[k] : topn_recommendations[k][e] # k

\* the map is complete for three items, two of which have similarity 1
C8_Witness ==
    /\ ppc = "done"
    /\ num_materials = 3
    /\ \E i, j \in 0..2 : i # j /\ SameDirection(i, j)
    /\ \A k \in DOMAIN topn_recommendations : topn_recommendations[k] # <<>>

\* C9: with M embedded items and cutoff n, every neighbor list has length
\* exactly min(n, M - 1), holds no id twice and holds only ids of the index
\* mapping.
C9_ListLengthAndIds ==
    ppc = "done" =>
        LET M == Cardinality(EmbeddedIds)
        IN  \A k \in DOMAIN topn_recommendations :
                LET l == topn_recommendations[k]
                IN  /\ Len(l) = IF n < M - 1 THEN n ELSE M - 1
                    /\ Len(l) <= n
                    /\ \A a, b \in DOMAIN l : a # b => l[a] # l[b]
                    /\ SetOf(l) \subseteq MappedIds

\* the map is complete for three items and the cutoff 1 shortened the lists
C9_Witness ==
    /\ ppc = "done"
    /\ Cardinality(EmbeddedIds) = 3
    /\ n = 1
    /\ \A k \in DOMAIN topn_recommendations : Len(topn_recommendations[k]) = 1

\* C10: every id in any neighbor list is a key of the map, and the map has
\* one key for every row of the index mapping.
C10_ReferentialConsistency ==
    ppc = "done" =>
        /\ \A k \in DOMAIN topn_recommendations :
               SetOf(topn_recommendations[k]) \subseteq DOMAIN topn_recommendations
        /\ Cardinality(DOMAIN topn_recommendations) = Cardinality(DOMAIN index_mapping)
        /\ DOMAIN topn_recommendations = MappedIds

\* the map is complete for a corpus in which two records share a file name
C10_Witness ==
    /\ ppc = "done"
    /\ Len(corpus) = 3
    /\ Cardinality(DOMAIN index_mapping) = 2
    /\ \E k \in DOMAIN topn_recommendations : topn_recommendations[k] # <<>>

\* the row of the index mapping that holds material id k
RowOf(k) == CHOOSE i \in DOMAIN idx_to_material_id : idx_to_material_id[i] = k

\* C11: every neighbor list is in order of non-increasing similarity to its
\* item and is a true top-n: no item left out (other than the item itself) is
\* strictly more similar to it than one that is in the list.  For the corpus
\* A, B, C, D the ranking of A is B, C, D, cut to n.
C11_SortedTrueTopN ==
    ppc = "done" =>
        /\ \A k \in DOMAIN topn_recommendations :
               LET i == RowOf(k)
                   l == topn_recommendations[k]
                   rows == [e \in DOMAIN l |-> RowOf(l[e])]
                   out == (0..(num_materials - 1)) \ ({i} \cup SetOf(rows))
               IN  /\ \A a, b \in DOMAIN l : a < b => ~SimLess(i, rows[a], rows[b])
                   /\ \A j \in out : \A e \in DOMAIN l : ~SimLess(i, rows[e], j)
        /\ corpus = ScenarioCorpus =>
               topn_recommendations[<<"A">>] = SliceTo(<<<<"B">>, <<"C">>, <<"D">>>>, n)

\* the map is complete for the corpus A, B, C, D with n = 2: top-2(A) = [B, C]
C11_Witness ==
    /\ ppc = "done"
    /\ corpus = ScenarioCorpus
    /\ n = 2
    /\ topn_recommendations[<<"A">>] = <<<<"B">>, <<"C">>>>

\* the position of id x in list l, 0 when x is not in l
PosIn(l, x) == IF \E e \in DOMAIN l : l[e] = x THEN CHOOSE e \in DOMAIN l : l[e] = x ELSE 0

\* C12: when two candidates with rows j < k have exactly equal similarity to
\* item i, j is ranked before k in i's neighbor list; if only one of them is
\* within the first n, it is j.
C12_TieBreakByIndex ==
    ppc = "done" =>
        \A id \in DOMAIN topn_recommendations :
            LET i == RowOf(id)
                l == topn_recommendations[id]
                cands == (0..(num_materials - 1)) \ {i}
            IN  \A j, k \in cands :
                    (j < k /\ ~SimLess(i, j, k) /\ ~SimLess(i, k, j)) =>
                        (PosIn(l, idx_to_material_id[k]) # 0 =>
                            /\ PosIn(l, idx_to_material_id[j]) # 0
                            /\ PosIn(l, idx_to_material_id[j])
                                   < PosIn(l, idx_to_material_id[k]))

-----------------------------------------------------------------------------
(* Known-empty and unknown items in the store (checked under Spec).        *)

\* C13: when an ingest_json call has returned, every item it ingested with an
\* empty list is returned by list_pdfs of its namespace, the namespace is
\* returned by list_usecases, and get_recommendations of the item is the empty
\* set; get_recommendations never returns the marker member; and an item with
\* no key in the store is not returned by list_pdfs.
C13_KnownEmptyDistinct ==
    /\ ing.pc = "returned" =>
           \A e \in DOMAIN ing.data :
               ing.data[e][2].items = <<>> =>
                   /\ ing.data[e][1] \in list_pdfs(ing.usecase)
                   /\ ing.usecase \in list_usecases
                   /\ get_recommendations(ing.usecase, ing.data[e][1]) = {}
    /\ \A uc \in IngestUsecases : \A pdf \in Items :
           /\ EMPTY_MARKER \notin get_recommendations(uc, pdf)
           /\ _key(uc, pdf) \notin DOMAIN store => pdf \notin list_pdfs(uc)

\* the key of (uc, pdf) holds the marker only: ingested with zero neighbors
KnownEmpty(uc, pdf) ==
    _key(uc, pdf) \in DOMAIN store /\ store[_key(uc, pdf)] = {EMPTY_MARKER}

\* C14 as stated: get_recommendations signals NotFound for a key that is
\* absent from the store, so its outcome for an absent key differs from its
\* outcome for a key ingested with zero neighbors.
C14_GetSignalsNotFound ==
    \A uc \in IngestUsecases : \A p, q \in Items :
        (_key(uc, p) \notin DOMAIN store /\ KnownEmpty(uc, q)) =>
            /\ GetOutcome(uc, p).raises = "NotFound"
            /\ GetOutcome(uc, p) # GetOutcome(uc, q)

\* C14, amended: get_recommendations never signals NotFound; it returns the
\* empty set for a key that is absent from the store, the members other than
\* the marker for a key that is present, and so the same outcome for an absent
\* key as for a key ingested with zero neighbors.
C14_GetSameForAbsentAndEmpty ==
    \A uc \in IngestUsecases : \A p, q \in Items :
        /\ GetOutcome(uc, p).raises = "none"
        /\ _key(uc, p) \notin DOMAIN store => GetOutcome(uc, p).value = {}
        /\ _key(uc, p) \in DOMAIN store =>
               GetOutcome(uc, p).value = store[_key(uc, p)] \ {EMPTY_MARKER}
        /\ (_key(uc, p) \notin DOMAIN store /\ KnownEmpty(uc, q)) =>
               GetOutcome(uc, p) = GetOutcome(uc, q)

\* an ingest has returned leaving one item known with zero neighbors and
\* another item of the namespace without a key
C14_Witness ==
    /\ ing.pc = "returned"
    /\ \E p, q \in Items :
           /\ _key(ing.usecase, p) \notin DOMAIN store
           /\ KnownEmpty(ing.usecase, q)

-----------------------------------------------------------------------------
(* Properties of GET /health and of the error responses (checked under     *)
(* ApiSpec).                                                               *)

\* a request to /health has been answered
HealthAnswered == resp.status # 0 /\ resp.req.path = "/health"

\* the connection probe fails: ping raises a connection error or returns false
ProbeFails(req) == req.ping \in {"ConnectionError", "False"}

\* the number of distinct second fields of the keys in the store
NamespaceCount == Cardinality({split(key, COLON, -1)[2] : key \in DOMAIN store})

\* the 200 body of /health for the current store
HealthOk ==
    /\ resp.status = 200
    /\ resp.health.status = "ok"
    /\ resp.health.database = "connected"
    /\ resp.health.available_datasets = NamespaceCount
    /\ store = <<>> => resp.health.available_datasets = 0

C16_UniformErrorEnvelope ==
    resp.status >= 400 =>
        /\ resp.status \in {404, 422, 503, 500}
        /\ Len(resp.errors) = 1
        /\ DOMAIN resp.errors[1] = {"code", "detail"}
        /\ resp.errors[1].code = resp.status
        /\ resp.recommendations = <<>>
        /\ resp.health = NoHealth

\* a 503 of /health in the envelope
C16_Witness ==
    /\ HealthAnswered
    /\ resp.status = 503
    /\ Len(resp.errors) = 1
    /\ resp.errors[1].code = 503

\* serving the request, a call raised an exception that is not an HTTPException
Unexpected(req) ==
    \/ /\ req.path = "/recommend"
       /\ PassesValidation(req)
       /\ \/ req.lu # "ok"
          \/ req.dataset.str \in list_usecases /\ req.gr # "ok"
    \/ /\ req.path = "/health"
       /\ \/ req.ping \notin {"True", "False", "ConnectionError"}
          \/ req.ping = "True" /\ req.lu # "ok"

\* C17: a request during which a call raises an exception other than
\* HTTPException is answered 500 with the one body whose detail is
\* "Internal server error", whatever the exception; every other request is
\* not answered 500: the 404 and 503 raised in the handlers keep their status.
C17_Opaque500 ==
    resp.status # 0 =>
        /\ Unexpected(resp.req) =>
               /\ resp.status = 500
               /\ resp.errors =
                      <<[code |-> 500,
                         detail |-> [msg |-> "Internal server error", dataset |-> <<>>,
                                     iid |-> <<>>, loc |-> {}]]>>
               /\ resp.recommendations = <<>>
               /\ resp.health = NoHealth
        /\ ~Unexpected(resp.req) => resp.status \in {200, 404, 422, 503}

\* a 500 of /recommend after get_recommendations raised on a known dataset
C17_Witness ==
    /\ resp.status = 500
    /\ resp.req.path = "/recommend"
    /\ resp.req.lu = "ok"
    /\ resp.req.gr = "ResponseError"
    /\ resp.calls = <<"list_usecases", "get_recommendations">>

-----------------------------------------------------------------------------
(* Properties of the metrics (checked under MetricsSpec).                  *)

\* the entries of predictions whose id has a non-empty ground-truth set
Evaluable ==
    {e \in DOMAIN predictions :
        predictions[e][1] \in DOMAIN ground_truth /\ ground_truth[predictions[e][1]] # {}}

\* the first k elements of l (none when k is not positive)
FirstN(l, k) == [e \in 1..(IF k < Len(l) THEN (IF k < 0 THEN 0 ELSE k) ELSE Len(l)) |-> l[e]]

\* |set(first n predicted ids) & ground_truth[id]| / |ground_truth[id]| of entry e
RecallTerm(e) ==
    LET truth == ground_truth[predictions[e][1]]
    IN  Frac(Cardinality(SetOf(FirstN(predictions[e][2], at_n)) \cap truth),
             Cardinality(truth))

RECURSIVE RecallTermSum(_)
RecallTermSum(S) ==
    IF S = {} THEN Frac(0, 1)
    ELSE LET e == CHOOSE x \in S : TRUE
         IN  FracAdd(RecallTerm(e), RecallTermSum(S \ {e}))

\* the mean of the recall terms over the evaluable entries
ExpectedRecall ==
    LET total == RecallTermSum(Evaluable)
    IN  Frac(total.num, total.den * Cardinality(Evaluable))

\* C18 as stated: for every n, recall_at_n is the mean, over exactly the ids
\* of predictions with a non-empty ground-truth set, of
\* |set(first n predicted ids) & ground_truth[id]| / |ground_truth[id]|.
C18_RecallIsMeanOverEvaluable ==
    (mpc = "recall_at_n" /\ Evaluable # {}) =>
        /\ metric.raises = "none"
        /\ metric.value = ExpectedRecall

\* C18, amended: for n >= 0, recall_at_n is the mean, over exactly the ids of
\* predictions with a non-empty ground-truth set, of
\* |set(first n predicted ids) & ground_truth[id]| / |ground_truth[id]|; ids
\* with missing or empty ground truth and ids only in ground_truth do not
\* contribute; recall_at_n({"x": ["a","b","c"]}, {"x": {"a","z"}}, 3) = 1/2.
C18_RecallIsMeanForNonNegativeN ==
    (mpc = "recall_at_n" /\ Evaluable # {} /\ at_n >= 0) =>
        /\ metric.raises = "none"
        /\ metric.value = ExpectedRecall
        /\ Len(metric.per_id) = Cardinality(Evaluable)
        /\ (predictions = ScenarioPredictions /\ ground_truth = ScenarioTruth) =>
               metric.value = Frac(1, 2)

\* recall_at_n has returned 1/2 for the example
C18_Witness ==
    /\ mpc = "recall_at_n"
    /\ predictions = ScenarioPredictions
    /\ ground_truth = ScenarioTruth
    /\ at_n = 3
    /\ metric.value = Frac(1, 2)

\* C19: when no id of predictions has a non-empty ground-truth set (an empty
\* predictions included), recall_at_n and tndcg_at_n raise ZeroDivisionError;
\* they do not return 0 or any other number.
C19_RaiseWhenNothingEvaluable ==
    (mpc \in {"recall_at_n", "tndcg_at_n"} /\ Evaluable = {}) =>
        /\ metric.raises = "ZeroDivisionError"
        /\ metric.per_id = <<>>

\* tndcg_at_n has raised on predictions whose only id has an empty ground-truth set
C19_Witness ==
    /\ mpc = "tndcg_at_n"
    /\ Len(predictions) = 1
    /\ predictions[1][1] \in DOMAIN ground_truth
    /\ ground_truth[predictions[1][1]] = {}
    /\ metric.raises = "ZeroDivisionError"

\* the entry has a repeated id in its predicted list
HasRepeat(e) ==
    \E a, b \in DOMAIN predictions[e][2] : a # b /\ predictions[e][2][a] = predictions[e][2][b]

\* C20: when at least one id has non-empty ground truth and n >= 0, the values
\* recall_at_n and tndcg_at_n return are in [0, 1], also with repeated ids in a
\* predicted list or a list shorter than n; the NDCG of an id is 0 when none of
\* its first n predictions is relevant and is never above 1.
C20_MetricsInUnitInterval ==
    (mpc \in {"recall_at_n", "tndcg_at_n"} /\ Evaluable # {} /\ at_n >= 0) =>
        /\ metric.raises = "none"
        /\ FracLe(Frac(0, 1), metric.value)
        /\ FracLe(metric.value, Frac(1, 1))
        /\ \A k \in DOMAIN metric.per_id :
               /\ FracLe(Frac(0, 1), metric.per_id[k])
               /\ FracLe(metric.per_id[k], Frac(1, 1))
        /\ \A e \in Evaluable :
               LET v == NdcgOf(predictions[e][2], ground_truth[predictions[e][1]], at_n)
                   top == FirstN(predictions[e][2], at_n)
               IN  /\ FracLe(v, Frac(1, 1))
                   /\ SetOf(top) \cap ground_truth[predictions[e][1]] = {} => v = Frac(0, 1)
        /\ (mpc = "tndcg_at_n" /\ Cardinality(Evaluable) = 1) =>
               \A e \in Evaluable :
                   metric.value
                       = NdcgOf(predictions[e][2], ground_truth[predictions[e][1]], at_n)

\* tndcg_at_n has returned for a predicted list with a repeated relevant id
\* that is shorter than n, and the relevant id is not in first place overall
C20_Witness ==
    /\ mpc = "tndcg_at_n"
    /\ at_n = 10
    /\ metric.raises = "none"
    /\ \E e \in Evaluable :
           /\ HasRepeat(e)
           /\ predictions[e][2][1] \in ground_truth[predictions[e][1]]
    /\ \E e \in Evaluable :
           /\ Len(predictions[e][2]) = 2
           /\ predictions[e][2][1] \notin ground_truth[predictions[e][1]]
           /\ predictions[e][2][2] \in ground_truth[predictions[e][1]]

-----------------------------------------------------------------------------
(* Properties of the reverse lookup, of namespaces and of failed ingests   *)
(* (checked under Spec).                                                   *)

\* the strings find_entries_recommending is asked about: item ids, an id
\* that is no key, and the empty string
LookupIds == Items \cup {<<"z">>, <<>>}

\* C21: find_entries_recommending(namespace, x) is exactly the set of item ids
\* k of the namespace with x in get_recommendations(namespace, k), for every
\* string x; keys of other namespaces and items stored only with the marker
\* are never reported.
C21_ReferrersExact ==
    \A uc \in IngestUsecases : \A x \in LookupIds :
        find_entries_recommending(uc, x)
            = {k \in Items : x \in get_recommendations(uc, k)}

-----------------------------------------------------------------------------
(* Properties of the index mapping (checked under PipeSpec).               *)

\* the embedding the loop computes for record d
EmbeddingOf(d) ==
    IF d.id \notin over_limit_ids THEN Encode(d.contents) ELSE MeanOfChunks(d.contents)

\* C22: once the index mapping is written, it is a bijection between the rows
\* 0..M-1 and the ids of the embedded items, M being the number of corpus
\* records that were embedded, and row i of the matrix is the embedding of the
\* item index_mapping[i], also when two records share a file basename.
C22_IndexMappingBijection ==
    ppc \in {"topn", "done"} =>
        LET M == Len(corpus)
        IN  /\ DOMAIN idx_to_material_id = 0..(M - 1)
            /\ num_materials = M
            /\ \A i, j \in DOMAIN idx_to_material_id :
                   i # j => idx_to_material_id[i] # idx_to_material_id[j]
            /\ {idx_to_material_id[i] : i \in DOMAIN idx_to_material_id}
                   = {PathName(corpus[k].id) : k \in DOMAIN corpus}
            /\ \A i \in DOMAIN idx_to_material_id : \A k \in DOMAIN corpus :
                   PathName(corpus[k].id) = idx_to_material_id[i] =>
                       embeddings_array[i + 1] = EmbeddingOf(corpus[k])

\* C23: when encoding one item raises, that item is skipped and the batch
\* continues: the run does not end there, and every other item still gets an
\* embedding, an index-mapping row and a neighbor list.
C23_ItemFailureNotFatal ==
    ppc = "raised" =>
        \A k \in DOMAIN corpus :
            k # idx + 1 =>
                /\ PathName(corpus[k].id) \in EmbeddedIds
                /\ PathName(corpus[k].id) \in MappedIds
                /\ PathName(corpus[k].id) \in DOMAIN topn_recommendations

-----------------------------------------------------------------------------
(* Properties of reads concurrent with an ingest (checked under ReadSpec). *)

\* the set of (uc, pdf) before the running ingest wrote it
BeforeSet(uc, pdf) ==
    {r \in (IF _key(uc, pdf) \in DOMAIN snap THEN snap[_key(uc, pdf)] ELSE {}) :
        r # EMPTY_MARKER}

\* the set of (uc, pdf) after the one write the running ingest makes for it
AfterSet(uc, pdf) ==
    IF uc = ing.usecase /\ \E e \in DOMAIN ing.data : ing.data[e][1] = pdf
    THEN LET e == CHOOSE x \in DOMAIN ing.data : ing.data[x][1] = pdf
         IN  BeforeSet(uc, pdf) \cup SetOf(ing.data[e][2].items)
    ELSE BeforeSet(uc, pdf)

\* C24: a get_recommendations concurrent with a running ingest_json returns,
\* for any key, either the set the key had before this ingest wrote it or the
\* set it has after that single write, never a part of the written set; keys
\* not yet reached by the loop are still seen with their old set while others
\* are already updated.
C24_PerKeyAtomicRead ==
    (seen.taken /\ ing.pc \in {"loop", "returned"}) =>
        /\ seen.value \in {BeforeSet(seen.usecase, seen.pdf), AfterSet(seen.usecase, seen.pdf)}
        /\ \A uc \in IngestUsecases : \A pdf \in Items :
               get_recommendations(uc, pdf) \in {BeforeSet(uc, pdf), AfterSet(uc, pdf)}
        /\ \A e \in DOMAIN ing.data :
               get_recommendations(ing.usecase, ing.data[e][1])
                   = IF e < ing.i THEN AfterSet(ing.usecase, ing.data[e][1])
                     ELSE BeforeSet(ing.usecase, ing.data[e][1])

\* in the middle of an ingest of two entries with two new members each, the
\* first key is updated and a reader has seen the second key with its old set
C24_Witness ==
    /\ ing.pc = "loop"
    /\ Len(ing.data) = 2
    /\ ing.i = 2
    /\ Cardinality(AfterSet(ing.usecase, ing.data[1][1])
                       \ BeforeSet(ing.usecase, ing.data[1][1])) = 2
    /\ get_recommendations(ing.usecase, ing.data[1][1]) = AfterSet(ing.usecase, ing.data[1][1])
    /\ seen.taken
    /\ seen.usecase = ing.usecase
    /\ seen.pdf = ing.data[2][1]
    /\ seen.value = BeforeSet(seen.usecase, seen.pdf)
    /\ seen.value # AfterSet(seen.usecase, seen.pdf)

-----------------------------------------------------------------------------
(* Namespace isolation and failed ingests (checked under Spec).            *)

\* item ids a caller may ask about, one of them holding the separator
ProbeIds == Items \cup {<<"u", COLON, "a">>}

\* C25: the first ingest_json, into namespace X on an empty store, leaves
\* get_recommendations, list_pdfs and find_entries_recommending of every
\* other namespace Y as they were (empty), and list_usecases is exactly the
\* set of namespaces with an ingested item, also for names holding ':'.
C25_NamespaceIsolation ==
    (ningest = 1 /\ ing.pc \in {"loop", "returned", "raised"}) =>
        /\ \A Y \in IngestUsecases \ {ing.usecase} :
               /\ list_pdfs(Y) = {}
               /\ \A p \in ProbeIds : get_recommendations(Y, p) = {}
               /\ \A x \in LookupIds : find_entries_recommending(Y, x) = {}
        /\ list_usecases = IF ing.count > 0 THEN {ing.usecase} ELSE {}

\* the entries of the ingested object whose value is not a list
BadEntries == {e \in DOMAIN ing.data : ing.data[e][2].type # "list"}

\* the keys of the store under the namespace of the last ingest
UsecaseKeys == keys(<<"recommendations", COLON>> \o ing.usecase \o <<COLON>>)

\* C26: when ingest_json has raised ValueError on a namespace that had no
\* keys: for a top-level value that is not an object nothing was written; for
\* an entry that is not a list, exactly the entries before it in the file are
\* in the store with their lists, and the offending entry and the later ones
\* are not.
C26_NoRollback ==
    (ing.pc = "raised" /\ ing.fresh) =>
        IF BadEntries = {}
        THEN /\ ing.data = <<>>
             /\ ing.count = 0
             /\ UsecaseKeys = {}
        ELSE LET bad == CHOOSE e \in BadEntries : \A f \in BadEntries : e <= f
             IN  /\ ing.i = bad
                 /\ ing.count = bad - 1
                 /\ UsecaseKeys = {_key(ing.usecase, ing.data[e][1]) : e \in 1..(bad - 1)}
                 /\ \A e \in 1..(bad - 1) :
                        store[_key(ing.usecase, ing.data[e][1])]
                            = IF ing.data[e][2].items = <<>> THEN {EMPTY_MARKER}
                              ELSE SetOf(ing.data[e][2].items)
                 /\ \A e \in bad..Len(ing.data) :
                        _key(ing.usecase, ing.data[e][1]) \notin DOMAIN store

\* ingest_json has raised at the second entry, after writing the first one
C26_Witness ==
    /\ ing.pc = "raised"
    /\ ing.fresh
    /\ Len(ing.data) = 2
    /\ BadEntries = {2}
    /\ ing.data[1][2].items # <<>>
    /\ _key(ing.usecase, ing.data[1][1]) \in DOMAIN store
    /\ _key(ing.usecase, ing.data[2][1]) \notin DOMAIN store

=============================================================================
